---- MODULE Spec2Model ----
(***************************************************************************)
(* Board engine of minsweeper-rust (src/src/main.rs): Game::new with its   *)
(* rejection-sampling mine placement and neighbour counting, the recursive *)
(* reveal_field_checked, toggle_flag_checked and the win/loss evaluation.  *)
(***************************************************************************)
EXTENDS Integers, Sequences, FiniteSets, TLC

\* Bounds of the explored arguments of Game::new(width, height, mines).
MaxWidth == 3
MaxHeight == 2
MaxMines == 2

VARIABLES
    width,          \* Game.width
    height,         \* Game.height
    field,          \* Game.field, indexed field[y][x]
    state,          \* Game.state
    mines,          \* argument `mines` of Game::new
    placed_bombs,   \* local of Game::new
    pc              \* "new": inside the placement loop, "ready": new returned,
                    \* "panicked": new panicked

vars == <<width, height, field, state, mines, placed_bombs, pc>>

----------------------------------------------------------------------------
\* enum CellContent
Mine == [tag |-> "Mine"]
Empty(n) == [tag |-> "Empty", n |-> n]
IsEmpty(content) == content.tag = "Empty"

\* enum CellVisibility
CellVisibility == {"Hidden", "Revealed", "Flagged"}

\* enum GameState
GameState == {"Playing", "Won", "Lost"}

\* CellStatus::new()
CellStatus_new == [content |-> Empty(0), status |-> "Hidden"]

\* struct Coordinate
Coordinate(x, y) == [x |-> x, y |-> y]

\* The Game value held by the variables; `events` is the record of what one
\* call did (empty between calls).
Game == [width |-> width, height |-> height, field |-> field,
         state |-> state, events |-> <<>>]

\* Coordinates of the cells of g.field, and the coordinates a caller may pass
\* (one column and one row beyond the grid included).
Coords(g) == {Coordinate(x, y) : x \in 0..(g.width - 1), y \in 0..(g.height - 1)}
InputCoords(g) == {Coordinate(x, y) : x \in 0..g.width, y \in 0..g.height}

\* Game::get_cell / Game::get_cell_mut: Some(cell) iff both indices exist.
has_cell(g, coord) ==
    /\ coord.y \in DOMAIN g.field
    /\ coord.x \in DOMAIN g.field[coord.y]
get_cell(g, coord) == g.field[coord.y][coord.x]

\* Game::get_neighbours: dx outer, dy inner, both over -1..=1, filtered to
\* the grid.  The pair (0, 0) is not filtered out.
get_neighbours_4(g, coord) ==
    LET cand == [i \in 1..9 |-> Coordinate(coord.x + ((i - 1) \div 3) - 1,
                                           coord.y + ((i - 1) % 3) - 1)]
        InGrid(c) == /\ c.x >= 0 /\ c.x < g.width
                     /\ c.y >= 0 /\ c.y < g.height
                     /\ (c.x = coord.x \/ c.y = coord.y)
    IN  SelectSeq(cand, InGrid)
get_neighbours(g, coord) ==
    LET cand == [i \in 1..9 |-> Coordinate(coord.x + ((i - 1) \div 3) - 1,
                                           coord.y + ((i - 1) % 3) - 1)]
        InGrid(c) == /\ c.x >= 0 /\ c.x < g.width
                     /\ c.y >= 0 /\ c.y < g.height
    IN  SelectSeq(cand, InGrid)

\* Game::is_fully_revealed_and_marked: false iff some cell is Hidden.
is_fully_revealed_and_marked_strict(g) ==
    \A c \in Coords(g) : get_cell(g, c).status = "Revealed"
is_fully_revealed_and_marked(g) ==
    \A c \in Coords(g) : get_cell(g, c).status # "Hidden"

\* Game::is_lost (unused by the engine): some Mine cell is Revealed.
is_lost(g) ==
    \E c \in Coords(g) : /\ get_cell(g, c).content = Mine
                         /\ get_cell(g, c).status = "Revealed"

----------------------------------------------------------------------------
\* Game::new, lines 108-113: number of neighbours holding a Mine.
mine_count_all(g, coord) == Len(get_neighbours(g, coord))
mine_count_orthogonal(g, coord) ==
    LET IsMine(n) == /\ has_cell(g, n) /\ get_cell(g, n).content = Mine
                     /\ (n.x = coord.x \/ n.y = coord.y)
    IN  Len(SelectSeq(get_neighbours(g, coord), IsMine))
mine_count(g, coord) ==
    LET IsMine(n) == has_cell(g, n) /\ get_cell(g, n).content = Mine
    IN  Len(SelectSeq(get_neighbours(g, coord), IsMine))

\* Game::new, lines 104-120: every Empty cell receives its mine count.
count_neighbours(g) ==
    [g EXCEPT !.field =
        [y \in DOMAIN g.field |->
            [x \in DOMAIN g.field[y] |->
                IF IsEmpty(g.field[y][x].content)
                THEN [g.field[y][x] EXCEPT
                         !.content = Empty(mine_count(g, Coordinate(x, y)))]
                ELSE g.field[y][x]]]]

----------------------------------------------------------------------------
\* Game::reveal_field_checked, lines 161-165: loss is evaluated before win.
reveal_outcome_win_first(g, cell_clone) ==
    IF is_fully_revealed_and_marked(g)
    THEN [g EXCEPT !.state = "Won",
                   !.events = Append(@, [op |-> "state", from |-> g.state, to |-> "Won"])]
    ELSE IF cell_clone.content = Mine
    THEN [g EXCEPT !.state = "Lost",
                   !.events = Append(@, [op |-> "state", from |-> g.state, to |-> "Lost"])]
    ELSE g
reveal_outcome(g, cell_clone) ==
    IF cell_clone.content = Mine
    THEN [g EXCEPT !.state = "Lost",
                   !.events = Append(@, [op |-> "state", from |-> g.state, to |-> "Lost"])]
    ELSE IF is_fully_revealed_and_marked(g)
    THEN [g EXCEPT !.state = "Won",
                   !.events = Append(@, [op |-> "state", from |-> g.state, to |-> "Won"])]
    ELSE g

RECURSIVE reveal_field_checked(_, _)
RECURSIVE reveal_each(_, _)

\* Game::reveal_field_checked, lines 157-159: the for_each over the collected
\* neighbours.
reveal_each(g, ns) ==
    IF ns = <<>> THEN g
    ELSE reveal_each(reveal_field_checked(g, Head(ns)), Tail(ns))

reveal_field_checked_cascade_any(g, coord) ==
    IF g.state # "Playing" THEN g
    ELSE IF ~has_cell(g, coord) THEN g
    ELSE LET cell_clone == get_cell(g, coord) IN
         IF cell_clone.status # "Hidden" THEN g
         ELSE LET g1 == [g EXCEPT
                           !.field[coord.y][coord.x].status = "Revealed",
                           !.events = Append(@, [op |-> "reveal", coord |-> coord])]
                  g2 == IF IsEmpty(cell_clone.content)
                        THEN reveal_each(g1, get_neighbours(g1, coord))
                        ELSE g1
              IN  reveal_outcome(g2, cell_clone)
reveal_field_checked_through_flags(g, coord) ==
    IF g.state # "Playing" THEN g
    ELSE IF ~has_cell(g, coord) THEN g
    ELSE LET cell_clone == get_cell(g, coord) IN
         IF cell_clone.status = "Revealed" THEN g
         ELSE LET g1 == [g EXCEPT
                           !.field[coord.y][coord.x].status = "Revealed",
                           !.events = Append(@, [op |-> "reveal", coord |-> coord])]
                  g2 == IF cell_clone.content = Empty(0)
                        THEN reveal_each(g1, get_neighbours(g1, coord))
                        ELSE g1
              IN  reveal_outcome(g2, cell_clone)

\* Game::reveal_field_checked.
reveal_field_checked(g, coord) ==
    IF g.state # "Playing" THEN g
    ELSE IF ~has_cell(g, coord) THEN g
    ELSE LET cell_clone == get_cell(g, coord) IN
         IF cell_clone.status # "Hidden" THEN g
         ELSE LET g1 == [g EXCEPT
                           !.field[coord.y][coord.x].status = "Revealed",
                           !.events = Append(@, [op |-> "reveal", coord |-> coord])]
                  g2 == IF cell_clone.content = Empty(0)
                        THEN reveal_each(g1, get_neighbours(g1, coord))
                        ELSE g1
              IN  reveal_outcome(g2, cell_clone)

\* Game::toggle_flag_checked.
toggle_flag_checked_no_guard(g, coor) ==
    IF ~has_cell(g, coor) THEN g
    ELSE LET cell == get_cell(g, coor)
             g1 == IF cell.status = "Hidden"
                   THEN [g EXCEPT !.field[coor.y][coor.x].status = "Flagged"]
                   ELSE IF cell.status = "Flagged"
                   THEN [g EXCEPT !.field[coor.y][coor.x].status = "Hidden"]
                   ELSE g
         IN  IF cell.content = Mine /\ is_fully_revealed_and_marked(g1)
             THEN [g1 EXCEPT !.state = "Won"]
             ELSE g1
toggle_flag_checked_no_unflag(g, coor) ==
    IF g.state # "Playing" THEN g
    ELSE IF ~has_cell(g, coor) THEN g
    ELSE LET cell == get_cell(g, coor)
             g1 == IF cell.status = "Hidden"
                   THEN [g EXCEPT !.field[coor.y][coor.x].status = "Flagged"]
                   ELSE g
         IN  IF cell.content = Mine /\ is_fully_revealed_and_marked(g1)
             THEN [g1 EXCEPT !.state = "Won"]
             ELSE g1
toggle_flag_checked_wrap(g, coor) ==
    IF g.state # "Playing" THEN g
    ELSE IF g.width = 0 \/ g.height = 0 THEN g
    ELSE LET w == Coordinate(coor.x % g.width, coor.y % g.height)
             cell == get_cell(g, w)
             g1 == IF cell.status = "Hidden"
                   THEN [g EXCEPT !.field[w.y][w.x].status = "Flagged"]
                   ELSE IF cell.status = "Flagged"
                   THEN [g EXCEPT !.field[w.y][w.x].status = "Hidden"]
                   ELSE g
         IN  IF cell.content = Mine /\ is_fully_revealed_and_marked(g1)
             THEN [g1 EXCEPT !.state = "Won"]
             ELSE g1
toggle_flag_checked_any_cell(g, coor) ==
    IF g.state # "Playing" THEN g
    ELSE IF ~has_cell(g, coor) THEN g
    ELSE LET cell == get_cell(g, coor)
             g1 == IF cell.status = "Hidden"
                   THEN [g EXCEPT !.field[coor.y][coor.x].status = "Flagged"]
                   ELSE IF cell.status = "Flagged"
                   THEN [g EXCEPT !.field[coor.y][coor.x].status = "Hidden"]
                   ELSE g
         IN  IF is_fully_revealed_and_marked(g1)
             THEN [g1 EXCEPT !.state = "Won"]
             ELSE g1
toggle_flag_checked_flags_revealed(g, coor) ==
    IF g.state # "Playing" THEN g
    ELSE IF ~has_cell(g, coor) THEN g
    ELSE LET cell == get_cell(g, coor)
             g1 == IF cell.status = "Flagged"
                   THEN [g EXCEPT !.field[coor.y][coor.x].status = "Hidden"]
                   ELSE [g EXCEPT !.field[coor.y][coor.x].status = "Flagged"]
         IN  IF cell.content = Mine /\ is_fully_revealed_and_marked(g1)
             THEN [g1 EXCEPT !.state = "Won"]
             ELSE g1
toggle_flag_checked(g, coor) ==
    IF g.state # "Playing" THEN g
    ELSE IF ~has_cell(g, coor) THEN g
    ELSE LET cell == get_cell(g, coor)
             g1 == IF cell.status = "Hidden"
                   THEN [g EXCEPT !.field[coor.y][coor.x].status = "Flagged"]
                   ELSE IF cell.status = "Flagged"
                   THEN [g EXCEPT !.field[coor.y][coor.x].status = "Hidden"]
                   ELSE g
         IN  IF cell.content = Mine /\ is_fully_revealed_and_marked(g1)
             THEN [g1 EXCEPT !.state = "Won"]
             ELSE g1

----------------------------------------------------------------------------
\* Game::new, lines 80-89: the arguments are drawn, the grid is allocated
\* with every cell Empty(0)/Hidden, and the placement loop is about to run.
Init ==
    /\ width \in 0..MaxWidth
    /\ height \in 0..MaxHeight
    /\ mines \in 0..MaxMines
    /\ field = [y \in 0..(height - 1) |-> [x \in 0..(width - 1) |-> CellStatus_new]]
    /\ state = "Playing"
    /\ placed_bombs = 0
    /\ pc = "new"

\* Game::new, lines 92-93: gen_range panics on the empty range 0..0.
NewPanic ==
    /\ pc = "new"
    /\ (width = 0 \/ height = 0)
    /\ pc' = "panicked"
    /\ UNCHANGED <<width, height, field, state, mines, placed_bombs>>

\* Game::new, lines 95-98: one draw of the placement loop.
place_bomb(f, x, y) ==
    IF IsEmpty(f[y][x].content)
    THEN [field |-> [f EXCEPT ![y][x] = [content |-> Mine, status |-> "Hidden"]],
          placed |-> 1]
    ELSE [field |-> f, placed |-> 0]

\* Game::new, lines 91-122: one iteration of the placement loop; the
\* iteration that breaks also runs the neighbour counting and returns.
Place ==
    /\ pc = "new"
    /\ \E x \in 0..(width - 1), y \in 0..(height - 1) :
         LET r == place_bomb(field, x, y)
             placed == placed_bombs + r.placed
         IN  /\ placed_bombs' = placed
             /\ IF placed >= mines
                THEN /\ field' = count_neighbours([Game EXCEPT !.field = r.field]).field
                     /\ pc' = "ready"
                ELSE /\ field' = r.field
                     /\ pc' = "new"
    /\ UNCHANGED <<width, height, state, mines>>

\* The onclick handler: g.reveal_field_checked(Coordinate{x, y}).
Reveal ==
    /\ pc = "ready"
    /\ \E coord \in InputCoords(Game) :
         LET g == reveal_field_checked(Game, coord)
         IN  /\ field' = g.field
             /\ state' = g.state
    /\ UNCHANGED <<width, height, mines, placed_bombs, pc>>

\* The oncontextmenu handler: g.toggle_flag_checked(Coordinate{x, y}).
ToggleFlag ==
    /\ pc = "ready"
    /\ \E coord \in InputCoords(Game) :
         LET g == toggle_flag_checked(Game, coord)
         IN  /\ field' = g.field
             /\ state' = g.state
    /\ UNCHANGED <<width, height, mines, placed_bombs, pc>>

Next == NewPanic \/ Place \/ Reveal \/ ToggleFlag

Spec == Init /\ [][Next]_vars

----------------------------------------------------------------------------
TypeOK ==
    /\ width \in 0..(MaxWidth + 1)
    /\ height \in 0..(MaxHeight + 1)
    /\ state \in GameState
    /\ pc \in {"new", "ready", "panicked"}
    /\ DOMAIN field = 0..(height - 1)
    /\ \A y \in DOMAIN field : DOMAIN field[y] = 0..(width - 1)
    /\ \A c \in Coords(Game) : get_cell(Game, c).status \in CellVisibility

----------------------------------------------------------------------------
\* Vocabulary of the properties.

Status(g, c) == get_cell(g, c).status
Content(g, c) == get_cell(g, c).content
MineCells(g) == {c \in Coords(g) : Content(g, c) = Mine}
HiddenCells(g) == {c \in Coords(g) : Status(g, c) = "Hidden"}
FlaggedCells(g) == {c \in Coords(g) : Status(g, c) = "Flagged"}
RevealedCells(g) == {c \in Coords(g) : Status(g, c) = "Revealed"}

Abs(i) == IF i < 0 THEN -i ELSE i

\* c and d are distinct cells whose x and y differ by at most one.
Adjacent(c, d) == c # d /\ Abs(c.x - d.x) <= 1 /\ Abs(c.y - d.y) <= 1

\* Number of Mine cells among the in-grid 8-connected neighbours of c.
TrueMineCount(g, c) == Cardinality({d \in MineCells(g) : Adjacent(c, d)})

\* The 8-connected region of Empty(0) cells that contains the cells of S.
RECURSIVE ZeroRegion(_, _)
ZeroRegion(g, S) ==
    LET T == S \cup {d \in Coords(g) : /\ Content(g, d) = Empty(0)
                                       /\ \E c \in S : Adjacent(c, d)}
    IN  IF T = S THEN S ELSE ZeroRegion(g, T)

\* The region of c together with the nonzero-count cells that touch it.
RegionWithBorder(g, c) ==
    LET Z == ZeroRegion(g, {c})
    IN  Z \cup {d \in Coords(g) : /\ IsEmpty(Content(g, d))
                                  /\ Content(g, d) # Empty(0)
                                  /\ \E z \in Z : Adjacent(z, d)}

\* The Hidden cells reached from S by stepping from a Hidden Empty(0) cell
\* to a Hidden neighbour.
RECURSIVE HiddenClosure(_, _)
HiddenClosure(g, S) ==
    LET T == S \cup {d \in Coords(g) : /\ Status(g, d) = "Hidden"
                                       /\ \E c \in S : /\ Content(g, c) = Empty(0)
                                                       /\ Adjacent(c, d)}
    IN  IF T = S THEN S ELSE HiddenClosure(g, T)

\* The visibility of every cell of g2 is that of g, except that the cells of
\* R are Revealed.
RevealedExactly(g, g2, R) ==
    \A d \in Coords(g) :
        Status(g2, d) = IF d \in R THEN "Revealed" ELSE Status(g, d)

SameBoard(g, g2) == g2.field = g.field /\ g2.state = g.state

ValidConfiguration == width >= 1 /\ height >= 1 /\ mines < width * height

\* new has returned a board for a valid configuration, holding the number
\* of mines that was asked for.
ContractBoard ==
    pc = "ready" /\ ValidConfiguration /\ Cardinality(MineCells(Game)) = mines

----------------------------------------------------------------------------
\* C1: for every valid (width, height, mineCount), mineCount = 0 included,
\* the board returned by new has exactly mineCount Mine cells.
C1_ExactMineCount ==
    (pc = "ready" /\ ValidConfiguration) => Cardinality(MineCells(Game)) = mines

\* C2: when new returns, the state is Playing, every cell is Hidden and every
\* non-mine cell holds Empty(n) with n the number of Mine cells among its
\* in-grid 8-connected neighbours.
C2_NewBoardCounts ==
    [][(pc = "new" /\ pc' = "ready") =>
          /\ state' = "Playing"
          /\ HiddenCells(Game') = Coords(Game')
          /\ \A c \in Coords(Game') :
                 Content(Game', c) # Mine =>
                     Content(Game', c) = Empty(TrueMineCount(Game', c))]_vars

C2_Witness ==
    /\ pc = "ready" /\ state = "Playing"
    /\ HiddenCells(Game) = Coords(Game)
    /\ \E c, d \in Coords(Game) :
          /\ Content(Game, c) = Empty(2)
          /\ Content(Game, d) = Empty(0)

\* C3: construction with mineCount >= width*height, or with a zero width or
\* height, never returns a board.
C3_InvalidConfigurationRejected ==
    ~ValidConfiguration => pc # "ready"

\* C4: Won and Lost are absorbing: once the state is not Playing, reveal and
\* toggleFlag on any coordinate change neither the state nor any cell; and
\* every change of the state, inside a reveal cascade too, is Playing->Won or
\* Playing->Lost.
C4_TerminalAbsorbing ==
    pc = "ready" =>
        \A c \in InputCoords(Game) :
            LET r == reveal_field_checked(Game, c)
                t == toggle_flag_checked(Game, c)
            IN  /\ state # "Playing" => SameBoard(Game, r) /\ SameBoard(Game, t)
                /\ t.state # state => state = "Playing" /\ t.state \in {"Won", "Lost"}
                /\ \A i \in DOMAIN r.events :
                       (r.events[i].op = "state" /\ r.events[i].from # r.events[i].to)
                           => /\ r.events[i].from = "Playing"
                              /\ r.events[i].to \in {"Won", "Lost"}

C4_Witness ==
    /\ pc = "ready" /\ state = "Lost"
    /\ HiddenCells(Game) # {}
    /\ FlaggedCells(Game) # {}

\* C5: in Playing, reveal on a Hidden Mine cell sets that cell to Revealed,
\* changes no other cell and sets the state to Lost, also when no Hidden
\* cell is left afterwards.
C5_RevealMineLoses ==
    (pc = "ready" /\ state = "Playing") =>
        \A c \in HiddenCells(Game) \cap MineCells(Game) :
            LET r == reveal_field_checked(Game, c)
            IN  /\ r.state = "Lost"
                /\ RevealedExactly(Game, r, {c})

C5_Witness ==
    /\ pc = "ready" /\ state = "Lost"
    /\ HiddenCells(Game) = {}
    /\ FlaggedCells(Game) # {}
    /\ Cardinality(RevealedCells(Game) \cap MineCells(Game)) = 1

\* C6: in every reachable state with state = Playing at least one cell is
\* Hidden (no Hidden cell and no revealed mine means Won).
C6_PlayingHasHiddenCell ==
    (ContractBoard /\ state = "Playing") => HiddenCells(Game) # {}

\* C7: whenever all non-mine cells are Revealed and all mine cells are
\* Flagged, the state is Won.
C7_ClearedBoardIsWon ==
    (/\ pc = "ready"
     /\ FlaggedCells(Game) = MineCells(Game)
     /\ RevealedCells(Game) = Coords(Game) \ MineCells(Game)) => state = "Won"

C7_Witness ==
    /\ pc = "ready" /\ state = "Won"
    /\ FlaggedCells(Game) = MineCells(Game)
    /\ RevealedCells(Game) = Coords(Game) \ MineCells(Game)
    /\ RevealedCells(Game) # {}

\* Supporting fact for C8 (a claim that some Won state has an unflagged
\* mine): in every Won state every Mine cell is Flagged.
WonImpliesMinesFlagged ==
    (pc = "ready" /\ state = "Won") => MineCells(Game) \subseteq FlaggedCells(Game)

\* C9 (as stated): in Playing, reveal on a Hidden Empty(0) cell sets to
\* Revealed exactly the cells of its 8-connected Empty(0) region plus the
\* border of nonzero-count cells, whatever cells are Flagged.
C9_RevealsRegionAndBorder ==
    (ContractBoard /\ state = "Playing") =>
        \A c \in HiddenCells(Game) :
            Content(Game, c) = Empty(0) =>
                LET r == reveal_field_checked(Game, c)
                    R == RegionWithBorder(Game, c)
                IN  \A d \in Coords(Game) :
                        /\ d \in R => Status(r, d) = "Revealed"
                        /\ d \notin R => Status(r, d) = Status(Game, d)

\* C9 (amended): in Playing, reveal on a Hidden Empty(0) cell sets to
\* Revealed exactly the Hidden cells reached from it by steps from a Hidden
\* Empty(0) cell to a Hidden neighbour; Flagged and already Revealed cells
\* are neither changed nor passed through, and no other cell changes.
C9_RevealsHiddenClosure ==
    (pc = "ready" /\ state = "Playing") =>
        \A c \in HiddenCells(Game) :
            Content(Game, c) = Empty(0) =>
                RevealedExactly(Game, reveal_field_checked(Game, c),
                                HiddenClosure(Game, {c}))

C9_Witness ==
    /\ pc = "ready" /\ state = "Playing"
    /\ \E c, d, e \in Coords(Game) :
          /\ Content(Game, c) = Empty(0) /\ Status(Game, c) = "Revealed"
          /\ Content(Game, d) = Empty(0) /\ Status(Game, d) = "Flagged"
          /\ Adjacent(c, d)
          /\ Adjacent(c, e) /\ Status(Game, e) = "Revealed"

\* C10 (as stated): two consecutive toggleFlag calls on a Hidden cell leave
\* the cell Hidden again, also when it is a Mine and the last Hidden cell.
C10_ToggleTwiceRoundTrip ==
    ContractBoard =>
        \A c \in HiddenCells(Game) :
            Status(toggle_flag_checked(toggle_flag_checked(Game, c), c), c) = "Hidden"

\* C10 (amended): two consecutive toggleFlag calls on a Hidden cell restore
\* the board, unless the first call ends the game (state Playing, the cell
\* is a Mine and the last Hidden cell): then the state is Won, the second
\* call is a no-op and the cell stays Flagged.
C10_ToggleTwiceUnlessWon ==
    pc = "ready" =>
        \A c \in HiddenCells(Game) :
            LET t1 == toggle_flag_checked(Game, c)
                t2 == toggle_flag_checked(t1, c)
                ends == /\ state = "Playing"
                        /\ Content(Game, c) = Mine
                        /\ HiddenCells(Game) = {c}
            IN  IF ends
                THEN /\ t1.state = "Won"
                     /\ Status(t1, c) = "Flagged"
                     /\ SameBoard(t1, t2)
                ELSE /\ SameBoard(Game, t2)
                     /\ Status(t2, c) = "Hidden"

C10_Witness ==
    /\ pc = "ready" /\ state = "Playing"
    /\ FlaggedCells(Game) # {}
    /\ RevealedCells(Game) # {}
    /\ \E c \in MineCells(Game) : HiddenCells(Game) = {c}

----------------------------------------------------------------------------
\* The coordinates a call logged as revealed, in order.
RevealEvents(g) == SelectSeq(g.events, LAMBDA e : e.op = "reveal")

\* The elements of a sequence.
Range(seq) == {seq[i] : i \in DOMAIN seq}

\* C11: neighbors(c) yields exactly the in-grid coordinates of the 3x3 block
\* centred on c without c itself: at most 8 coordinates, never c.
C11_NeighboursExcludeCentre ==
    ContractBoard =>
        \A c \in Coords(Game) :
            LET ns == get_neighbours(Game, c)
            IN  /\ Range(ns) = {d \in Coords(Game) : Adjacent(c, d)}
                /\ Len(ns) <= 8
                /\ c \notin Range(ns)

\* C12: reveal or toggleFlag with a coordinate outside the grid leaves every
\* cell and the game state unchanged.
C12_OutOfBoundsNoOp ==
    pc = "ready" =>
        \A c \in InputCoords(Game) \ Coords(Game) :
            /\ SameBoard(Game, reveal_field_checked(Game, c))
            /\ SameBoard(Game, toggle_flag_checked(Game, c))

C12_Witness ==
    /\ pc = "ready" /\ state = "Playing"
    /\ InputCoords(Game) \ Coords(Game) # {}
    /\ HiddenCells(Game) # {}
    /\ FlaggedCells(Game) # {}
    /\ RevealedCells(Game) # {}

\* C13: on a board constructed with mineCount = 0 every cell has content
\* Empty(0), and a single reveal of any cell of the fresh board reveals
\* every cell and sets the state to Won.
C13_NoMinesOneRevealWins ==
    (pc = "ready" /\ width >= 1 /\ height >= 1 /\ mines = 0) =>
        /\ \A c \in Coords(Game) : Content(Game, c) = Empty(0)
        /\ (state = "Playing" /\ HiddenCells(Game) = Coords(Game)) =>
               \A c \in Coords(Game) :
                   LET r == reveal_field_checked(Game, c)
                   IN  /\ RevealedCells(r) = Coords(Game)
                       /\ r.state = "Won"

\* C14: in Playing, toggleFlag changes the state to Won if and only if the
\* target cell is a Mine and no cell is Hidden after the toggle; in every
\* other case the state stays Playing.
C14_ToggleWinsOnlyOnMine ==
    (pc = "ready" /\ state = "Playing") =>
        \A c \in InputCoords(Game) :
            \A t \in {toggle_flag_checked(Game, c)} :
                /\ t.state \in {"Playing", "Won"}
                /\ t.state = "Won" <=> /\ c \in Coords(Game)
                                       /\ Content(Game, c) = Mine
                                       /\ HiddenCells(t) = {}

C14_Witness ==
    /\ pc = "ready" /\ state = "Playing"
    /\ HiddenCells(Game) = {}
    /\ RevealedCells(Game) # {}

\* C15: in Playing, reveal on a Hidden cell with content Empty(n), n >= 1,
\* sets exactly that cell to Revealed and leaves the state Playing whenever
\* a cell is still Hidden afterwards.
C15_RevealNumberNoCascade ==
    (pc = "ready" /\ state = "Playing") =>
        \A c \in HiddenCells(Game) :
            (IsEmpty(Content(Game, c)) /\ Content(Game, c) # Empty(0)) =>
                \A r \in {reveal_field_checked(Game, c)} :
                    /\ RevealedExactly(Game, r, {c})
                    /\ HiddenCells(r) # {} => r.state = "Playing"

C15_Witness ==
    /\ pc = "ready" /\ state = "Playing"
    /\ FlaggedCells(Game) = {}
    /\ \E c \in Coords(Game) :
          /\ RevealedCells(Game) = {c}
          /\ IsEmpty(Content(Game, c)) /\ Content(Game, c) # Empty(0)
          /\ \E d \in HiddenCells(Game) : Adjacent(c, d) /\ Content(Game, d) # Mine

\* C16: during one reveal call, cascade included, each cell is set to
\* Revealed at most once, only cells that were Hidden are processed, and at
\* most width*height cells are revealed.
C16_RevealBoundedWork ==
    pc = "ready" =>
        \A c \in InputCoords(Game) :
            \A r \in {reveal_field_checked(Game, c)} : \A revs \in {RevealEvents(r)} :
                /\ \A i, j \in DOMAIN revs : revs[i].coord = revs[j].coord => i = j
                /\ \A i \in DOMAIN revs : /\ revs[i].coord \in HiddenCells(Game)
                                          /\ revs[i].coord \in RevealedCells(r)
                /\ Len(revs) <= width * height
                /\ RevealedCells(r) =
                       RevealedCells(Game) \cup {revs[i].coord : i \in DOMAIN revs}

C16_Witness ==
    /\ pc = "ready" /\ state = "Won"
    /\ Cardinality(RevealedCells(Game)) >= 4
    /\ Cardinality({c \in RevealedCells(Game) : Content(Game, c) = Empty(0)}) >= 2

\* C17: a Flagged cell is never revealed by reveal: reveal on a Flagged cell
\* changes nothing, a cascade leaves every Flagged cell Flagged, and the
\* only call that changes a Flagged cell's visibility is toggleFlag on that
\* cell, which sets it to Hidden.
C17_FlaggedNeverRevealed ==
    pc = "ready" =>
        \A c \in InputCoords(Game) :
            \A r \in {reveal_field_checked(Game, c)}, t \in {toggle_flag_checked(Game, c)} :
                /\ c \in FlaggedCells(Game) => SameBoard(Game, r)
                /\ \A d \in FlaggedCells(Game) :
                       /\ Status(r, d) = "Flagged"
                       /\ d \notin {e.coord : e \in Range(RevealEvents(r))}
                       /\ Status(t, d) # "Flagged" => d = c /\ Status(t, d) = "Hidden"

C17_Witness ==
    /\ pc = "ready" /\ state = "Playing"
    /\ \E c, d \in Coords(Game) :
          /\ Content(Game, c) = Empty(0) /\ Status(Game, c) = "Revealed"
          /\ Adjacent(c, d)
          /\ Content(Game, d) # Empty(0) /\ Status(Game, d) = "Flagged"

\* C18: Revealed is permanent: reveal or toggleFlag on a Revealed cell
\* leaves every cell and the state unchanged, and no call changes a Revealed
\* cell's visibility.
C18_RevealedPermanent ==
    pc = "ready" =>
        \A c \in InputCoords(Game) :
            \A r \in {reveal_field_checked(Game, c)}, t \in {toggle_flag_checked(Game, c)} :
                /\ c \in RevealedCells(Game) => SameBoard(Game, r) /\ SameBoard(Game, t)
                /\ RevealedCells(Game) \subseteq RevealedCells(r)
                /\ RevealedCells(Game) \subseteq RevealedCells(t)

C18_Witness ==
    /\ pc = "ready" /\ state = "Playing"
    /\ Cardinality(RevealedCells(Game)) >= 2
    /\ HiddenCells(Game) # {}
    /\ FlaggedCells(Game) = {}

\* C19: the state is Lost if and only if some Mine cell is Revealed, and at
\* most one Mine cell is ever Revealed.
C19_LostIffMineRevealed ==
    pc = "ready" =>
        /\ state = "Lost" <=> is_lost(Game)
        /\ Cardinality(RevealedCells(Game) \cap MineCells(Game)) <= 1

C19_Witness ==
    /\ pc = "ready" /\ state = "Lost"
    /\ FlaggedCells(Game) = {}
    /\ Cardinality(MineCells(Game)) >= 2
    /\ Cardinality(RevealedCells(Game) \cap MineCells(Game)) = 1

\* C20: a reveal whose target is not a Mine changes the visibility of no
\* Mine cell and never sets the state to Lost.
C20_CascadeSparesMines ==
    pc = "ready" =>
        \A c \in Coords(Game) :
            Content(Game, c) # Mine =>
                \A r \in {reveal_field_checked(Game, c)} :
                    /\ \A d \in MineCells(Game) : Status(r, d) = Status(Game, d)
                    /\ r.state = "Lost" => state = "Lost"

C20_Witness ==
    /\ pc = "ready" /\ state = "Playing"
    /\ Cardinality(MineCells(Game)) >= 2
    /\ MineCells(Game) \subseteq HiddenCells(Game)
    /\ \E c \in RevealedCells(Game) : Content(Game, c) = Empty(0)

====
